---- MODULE Spec2Model ----
(***************************************************************************)
(* Model of src/native/addon.cc: the single-frame VP8 pipelines            *)
(* EncodeVP8Frame and DecodeVP8Frame.  One call is a sequence of native    *)
(* library calls (libavcodec, libavutil, libswscale); every native call is *)
(* one step, its status chosen nondeterministically because the library is *)
(* an external collaborator.  Each call keeps a log of the native          *)
(* operations it performed, in order, with the state of every handle it    *)
(* passed; the native heap is shared by all calls.                         *)
(***************************************************************************)
EXTENDS Integers, Sequences, FiniteSets, TLC

\* ------------------------------------------------------------------ bounds
\* Largest width/height an invocation (or the decoder) picks.
MaxDim == 3
\* Largest compressed payload size (decode input, encoder output).
MaxPkt == 2
\* Invocations that may be in flight together.
NumCalls == 2
\* Row alignment av_frame_get_buffer(frame, 0) picks for the build's CPU.
Align == 4

Calls == 1..NumCalls
\* The call that runs alone under Spec.
Solo == {1}
Dims == (0 - 1)..MaxDim
\* Longest pixel buffer offered: one byte more than the largest RGB24 image.
MaxLen == 3 * MaxDim * MaxDim + 1
Lens == 0..MaxLen
\* Values of options.format; any string other than the two planar names
\* leaves the RGB24 default in force on the conversion path.
Formats == {"RGB24", "I420", "YUV420P"}
\* Native heap cells: a call holds at most ctx, frame, pkt and sws.
Addrs == 1..(4 * NumCalls)
Resources == {"ctx", "frame", "pkt", "sws"}

VARIABLES
    call,   \* call[c]: the locals of invocation c (a record, see InitLocal)
    heap    \* heap[a]: owner and kind of native heap cell a

vars == <<call, heap>>

\* ------------------------------------------------- C++ integer arithmetic
\* Byte i (0..3) of the two's-complement representation of the int x.
Byte(x, i) == (x \div (256 ^ i)) % 256

\* The int whose two's-complement bytes are b0 (low) .. b3 (high).
FromBytes(b0, b1, b2, b3) ==
    (IF b3 >= 128 THEN b3 - 256 ELSE b3) * 16777216 + b2 * 65536 + b1 * 256 + b0

\* a * b in 32-bit int arithmetic (the product's low 32 bits).
Mul32(a, b) ==
    LET s0 == Byte(a, 0) * Byte(b, 0)
        s1 == Byte(a, 0) * Byte(b, 1) + Byte(a, 1) * Byte(b, 0) + (s0 \div 256)
        s2 == Byte(a, 0) * Byte(b, 2) + Byte(a, 1) * Byte(b, 1)
              + Byte(a, 2) * Byte(b, 0) + (s1 \div 256)
        s3 == Byte(a, 0) * Byte(b, 3) + Byte(a, 1) * Byte(b, 2)
              + Byte(a, 2) * Byte(b, 1) + Byte(a, 3) * Byte(b, 0) + (s2 \div 256)
    IN  FromBytes(s0 % 256, s1 % 256, s2 % 256, s3 % 256)

\* a + b in 32-bit int arithmetic.
Add32(a, b) ==
    LET s0 == Byte(a, 0) + Byte(b, 0)
        s1 == Byte(a, 1) + Byte(b, 1) + (s0 \div 256)
        s2 == Byte(a, 2) + Byte(b, 2) + (s1 \div 256)
        s3 == Byte(a, 3) + Byte(b, 3) + (s2 \div 256)
    IN  FromBytes(s0 % 256, s1 % 256, s2 % 256, s3 % 256)

\* C++ integer division: the quotient is truncated toward zero.
CDiv(a, b) == IF a >= 0 THEN a \div b ELSE 0 - ((0 - a) \div b)

\* static_cast<size_t>(v) of an int v on a 64-bit build: v itself when v >= 0,
\* 2^64 + v otherwise (wrapped = TRUE stands for the added 2^64).
ToSizeT(v) == [wrapped |-> v < 0, low |-> v]

\* inputBuffer.Length(): a size_t that never wraps.
BufferLength(len) == [wrapped |-> FALSE, low |-> len]

\* The layout test with the alias "YUV420P" not recognised.
IsI420NoAlias(format) == format = "I420"

\* bool isI420 = (format == "I420" || format == "YUV420P");
IsI420(format) == format = "I420" \/ format = "YUV420P"

\* expectedSize as the encoder computes it: int arithmetic, then the cast.
ExpectedSize(isI420, width, height) ==
    IF isI420
    THEN ToSizeT(Add32(Mul32(width, height),
                       Mul32(Mul32(CDiv(width, 2), CDiv(height, 2)), 2)))
    ELSE ToSizeT(Mul32(Mul32(width, height), 3))

\* INT_MAX of the int that holds width, height and their products.
IntMax == 2147483647
Abs(x) == IF x < 0 THEN 0 - x ELSE x
\* a * b is representable as an int (for operands and products above INT_MIN).
MulFits(a, b) == a = 0 \/ b = 0 \/ Abs(a) <= IntMax \div Abs(b)
\* a + b is representable as an int.
AddFits(a, b) == IF b >= 0 THEN a <= IntMax - b ELSE a >= (0 - IntMax - 1) - b

\* No multiplication or addition of the expectedSize expression overflows.
SizeFits(isI420, width, height) ==
    /\ MulFits(width, height)
    /\ IF isI420
       THEN /\ MulFits(CDiv(width, 2), CDiv(height, 2))
            /\ MulFits(CDiv(width, 2) * CDiv(height, 2), 2)
            /\ AddFits(width * height, CDiv(width, 2) * CDiv(height, 2) * 2)
       ELSE MulFits(width * height, 3)

\* inputBuffer.Length() != expectedSize for a buffer of len bytes.  Signed
\* overflow in the int arithmetic is undefined: the build compares the
\* wrapped value, or the value computed at a wider width, which exceeds
\* INT_MAX and so differs from every length offered here.
SizeMismatches(isI420, width, height, len) ==
    {BufferLength(len) # ExpectedSize(isI420, width, height)}
        \cup (IF SizeFits(isI420, width, height) THEN {} ELSE {TRUE})

\* ------------------------------------------------------- the native heap
FreeCell == [owner |-> 0, kind |-> "free"]

\* The allocator hands out the lowest free cell, so a freed cell is reused.
MinFree(h) == CHOOSE a \in Addrs : h[a] = FreeCell /\ \A b \in Addrs : h[b] = FreeCell => a <= b

\* What a handle of call c designates: nothing, a live resource of the right
\* kind allocated by c, or memory that is no longer (or never was) that.
HandleState(h, c, r, a) ==
    IF a = 0 THEN "null"
    ELSE IF h[a] = [owner |-> c, kind |-> r] THEN "own"
    ELSE "stale"

\* The handle arguments rs of a native call made by call c with locals l.
Touch(h, c, l, rs) == {[res |-> r, st |-> HandleState(h, c, r, l[r])] : r \in rs}

\* One native operation as the log records it: its name, whether it
\* succeeded (status >= 0, pointer non-null), the handles passed, and the
\* resource it acquired or released ("none" when it did neither).
Entry(op, ok, args, acq, rel) == [op |-> op, ok |-> ok, args |-> args, acq |-> acq, rel |-> rel]

\* A transformer's state: the locals of the running call and the heap.
St(c) == [loc |-> call[c], heap |-> heap]

\* A native call that neither allocates nor frees a handle.
Native(st, c, op, ok, rs) ==
    [st EXCEPT !.loc.log = Append(@, Entry(op, ok, Touch(st.heap, c, st.loc, rs), "none", "none"))]

\* An allocating native call storing its result in local r (NULL on failure).
Acquire(st, c, op, ok, r, rs) ==
    IF ok
    THEN LET a == MinFree(st.heap)
         IN  [loc  |-> [st.loc EXCEPT ![r] = a,
                                      !.log = Append(@, Entry(op, TRUE, Touch(st.heap, c, st.loc, rs), r, "none"))],
              heap |-> [st.heap EXCEPT ![a] = [owner |-> c, kind |-> r]]]
    ELSE [st EXCEPT !.loc[r] = 0,
                    !.loc.log = Append(@, Entry(op, FALSE, Touch(st.heap, c, st.loc, rs), "none", "none"))]

\* The releasing calls: the local each one frees and whether it takes the
\* handle by address and nulls it (av_*_free(&p)) or by value (sws_freeContext).
FreeTarget(op) ==
    CASE op = "avcodec_free_context" -> [res |-> "ctx",   nulls |-> TRUE]
      [] op = "av_frame_free"        -> [res |-> "frame", nulls |-> TRUE]
      [] op = "av_packet_free"       -> [res |-> "pkt",   nulls |-> TRUE]
      [] op = "sws_freeContext"      -> [res |-> "sws",   nulls |-> FALSE]

\* One releasing call: a no-op on NULL, frees the cell of a live handle; on
\* a stale handle it is logged as such (a double free) and frees nothing.
Release(st, c, op) ==
    LET t  == FreeTarget(op)
        a  == st.loc[t.res]
        hs == HandleState(st.heap, c, t.res, a)
    IN  [loc  |-> [st.loc EXCEPT ![t.res] = IF t.nulls THEN 0 ELSE a,
                                 !.log = Append(@, Entry(op, TRUE, {[res |-> t.res, st |-> hs]}, "none",
                                                         IF hs = "own" THEN t.res ELSE "none"))],
         heap |-> IF hs = "own" THEN [st.heap EXCEPT ![a] = FreeCell] ELSE st.heap]

\* av_packet_unref(pkt): drops the payload reference, keeps the packet.
Unref(st, c) ==
    LET s == Native(st, c, "av_packet_unref", TRUE, {"pkt"})
    IN  [s EXCEPT !.loc.pktData = IF @ = "ref" THEN "unref" ELSE @]

\* A cleanup block: its calls in source order.
RECURSIVE Cleanup(_, _, _)
Cleanup(st, c, ops) ==
    IF ops = <<>> THEN st
    ELSE Cleanup(IF Head(ops) = "av_packet_unref" THEN Unref(st, c) ELSE Release(st, c, Head(ops)),
                 c, Tail(ops))

\* Napi::Error::New(env, msg).ThrowAsJavaScriptException(); return env.Undefined();
Throw(st, msg) == [st EXCEPT !.loc.exc = msg, !.loc.ret = "undefined", !.loc.pc = "returned"]

\* return result;
Return(st) == [st EXCEPT !.loc.ret = "result", !.loc.pc = "returned"]

Goto(st, pc) == [st EXCEPT !.loc.pc = pc]

\* A null-pointer field access in the addon's own code: the process dies.
Crash(st, c, op, rs) == Goto(Native(st, c, op, FALSE, rs), "crashed")

Commit(c, st) == /\ call' = [call EXCEPT ![c] = st.loc]
                 /\ heap' = st.heap

\* -------------------------------------------------------- a call's locals
InitLocal ==
    [pc |-> "idle", kind |-> "none", argsOk |-> TRUE,
     width |-> 0, height |-> 0, format |-> "RGB24", len |-> 0,
     codec |-> FALSE, ctx |-> 0, frame |-> 0, pkt |-> 0, sws |-> 0,
     framePts |-> 0 - 1, framePict |-> "none", sentPts |-> 0 - 1, sentPict |-> "none",
     frameW |-> 0, frameH |-> 0,
     pktData |-> "none", pktFlags |-> 0, pktSize |-> 0,
     copies |-> <<>>,
     exc |-> "none", ret |-> "none", result |-> <<>>, log |-> <<>>]

Init == /\ call = [c \in Calls |-> InitLocal]
        /\ heap = [a \in Addrs |-> FreeCell]

\* ------------------------------------------------------- EncodeVP8Frame
\* The caller invokes encodeVP8Frame(data, options).
InvokeEncode(c) ==
    /\ call[c].pc = "idle"
    /\ \/ \E w \in Dims, h \in Dims, f \in Formats, n \in Lens :
             call' = [call EXCEPT ![c] = [@ EXCEPT !.pc = "enc_args", !.kind = "encode",
                                                   !.width = w, !.height = h,
                                                   !.format = f, !.len = n]]
       \/ call' = [call EXCEPT ![c] = [@ EXCEPT !.pc = "enc_args", !.kind = "encode",
                                                !.argsOk = FALSE]]
    /\ UNCHANGED heap

EncArgs(c) ==
    /\ call[c].pc = "enc_args"
    /\ Commit(c, IF call[c].argsOk
                 THEN Goto(St(c), "enc_size")
                 ELSE Throw(St(c), "Expected (Buffer, {width, height, bitrate})"))

SizeMismatchMessage(isI420) ==
    IF isI420 THEN "I420 buffer size mismatch" ELSE "RGB24 buffer size mismatch"

EncCheckSize(c) ==
    /\ call[c].pc = "enc_size"
    /\ LET l      == call[c]
           isI420 == IsI420(l.format)
       IN  \E mismatch \in SizeMismatches(isI420, l.width, l.height, l.len) :
              Commit(c, IF mismatch
                        THEN Throw(St(c), SizeMismatchMessage(isI420))
                        ELSE Goto(St(c), "enc_find"))

\* The lookup by codec identifier alone, the named implementation not tried.
EncFindCodecByIdOnly(c) ==
    /\ call[c].pc = "enc_find"
    /\ \E byId \in BOOLEAN :
          LET s == Native(St(c), c, "avcodec_find_encoder", byId, {})
          IN  Commit(c, IF byId
                        THEN Goto([s EXCEPT !.loc.codec = TRUE], "enc_alloc_ctx")
                        ELSE Throw(s, "VP8 encoder (libvpx) not found"))

EncFindCodec(c) ==
    /\ call[c].pc = "enc_find"
    /\ \E byName \in BOOLEAN, byId \in BOOLEAN :
          LET s1 == Native(St(c), c, "avcodec_find_encoder_by_name", byName, {})
              s2 == IF byName THEN s1 ELSE Native(s1, c, "avcodec_find_encoder", byId, {})
          IN  Commit(c, IF byName \/ byId
                        THEN Goto([s2 EXCEPT !.loc.codec = TRUE], "enc_alloc_ctx")
                        ELSE Throw(s2, "VP8 encoder (libvpx) not found"))

EncAllocContext(c) ==
    /\ call[c].pc = "enc_alloc_ctx"
    /\ \E ok \in BOOLEAN :
          LET s == Acquire(St(c), c, "avcodec_alloc_context3", ok, "ctx", {})
          IN  Commit(c, IF ok THEN Goto(s, "enc_configure")
                        ELSE Throw(s, "Failed to allocate encoder context"))

EncConfigure(c) ==
    /\ call[c].pc = "enc_configure"
    /\ Commit(c, Goto(Native(St(c), c, "configure", TRUE, {"ctx"}), "enc_open"))

EncOpenFailCleanup == <<"avcodec_free_context">>

\* av_image_check_size2 as avcodec_open2 applies it to width x height: both
\* positive and 8 * width * (height + 128) below INT_MAX.
ImageSizeOk(width, height) ==
    /\ width > 0 /\ height > 0
    /\ MulFits(8, width) /\ AddFits(height, 128)
    /\ MulFits(8 * width, height + 128)
    /\ 8 * width * (height + 128) < IntMax

\* What avcodec_open2 may answer for an encoder context configured with
\* width x height: the library refuses dimensions that are not positive or
\* describe a picture too large to address.
EncOpenOutcomes(width, height) == IF ImageSizeOk(width, height) THEN BOOLEAN ELSE {FALSE}

\* The open-failure path with its return statement missing.
EncOpenNoReturn(c) ==
    /\ call[c].pc = "enc_open"
    /\ \E ok \in EncOpenOutcomes(call[c].width, call[c].height) :
          LET s == Native(St(c), c, "avcodec_open2", ok, {"ctx"})
          IN  Commit(c, IF ok THEN Goto(s, "enc_frame_alloc")
                        ELSE Goto([Cleanup(s, c, EncOpenFailCleanup)
                                     EXCEPT !.loc.exc = "Failed to open VP8 encoder"],
                                  "enc_frame_alloc"))

EncOpen(c) ==
    /\ call[c].pc = "enc_open"
    /\ \E ok \in EncOpenOutcomes(call[c].width, call[c].height) :
          LET s == Native(St(c), c, "avcodec_open2", ok, {"ctx"})
          IN  Commit(c, IF ok THEN Goto(s, "enc_frame_alloc")
                        ELSE Throw(Cleanup(s, c, EncOpenFailCleanup), "Failed to open VP8 encoder"))

EncFrameAlloc(c) ==
    /\ call[c].pc = "enc_frame_alloc"
    /\ \E ok \in BOOLEAN :
          LET s == Acquire(St(c), c, "av_frame_alloc", ok, "frame", {})
          IN  Commit(c, IF ok THEN Goto(Native(s, c, "frame_set_format", TRUE, {"frame", "ctx"}),
                                        "enc_get_buffer")
                        ELSE Crash(s, c, "frame_set_format", {"frame", "ctx"}))

EncGetBufferFailCleanup == <<"av_frame_free", "avcodec_free_context">>

EncGetBuffer(c) ==
    /\ call[c].pc = "enc_get_buffer"
    /\ \E ok \in BOOLEAN :
          LET s == Native(St(c), c, "av_frame_get_buffer", ok, {"frame"})
          IN  Commit(c, IF ok THEN Goto(s, "enc_make_writable")
                        ELSE Throw(Cleanup(s, c, EncGetBufferFailCleanup),
                                   "Failed to allocate frame buffer"))

EncMakeWritable(c) ==
    /\ call[c].pc = "enc_make_writable"
    /\ \E ok \in BOOLEAN :
          Commit(c, Goto(Native(St(c), c, "av_frame_make_writable", ok, {"frame"}),
                         IF IsI420(call[c].format) THEN "enc_copy_planes" ELSE "enc_sws_get"))

\* frame->linesize[plane] of a YUV420P frame width pixels wide: the row
\* width of the plane (chroma rows are ceil(width/2) wide) rounded up to the
\* alignment.
PlaneWidth(plane, width) == IF plane = 0 THEN width ELSE (width + 1) \div 2
LineSize(plane, width) == Align * ((PlaneWidth(plane, width) + Align - 1) \div Align)

\* int ySize = width * height;
YSize(width, height) == Mul32(width, height)
\* The chroma stride rounded up, as the frame's own chroma rows are.
UvStrideRoundedUp(width) == (width + 1) \div 2
\* int uvStride = width / 2;
UvStride(width) == CDiv(width, 2)
\* int uvHeight = height / 2;
UvHeight(height) == CDiv(height, 2)

\* for (int y = 0; y < rows; y++) memcpy(frame->data[plane] + y * linesize,
\*                                         inputData + base + y * stride, stride);
\* as the sequence of its memcpy calls (destination offset within the plane,
\* source offset within the input, byte count).
PlaneLoop(plane, rows, base, stride, linesize) ==
    [k \in 1..rows |-> [plane |-> plane, dst |-> (k - 1) * linesize,
                        src |-> base + (k - 1) * stride, n |-> stride]]

\* The Y, U and V loops in source order.
PlaneCopies(width, height) ==
    LET ySize    == YSize(width, height)
        uvStride == UvStride(width)
        uvHeight == UvHeight(height)
    IN  PlaneLoop(0, height, 0, width, LineSize(0, width))
        \o PlaneLoop(1, uvHeight, ySize, uvStride, LineSize(1, width))
        \o PlaneLoop(2, uvHeight, ySize + uvStride * uvHeight, uvStride, LineSize(2, width))

EncCopyPlanes(c) ==
    /\ call[c].pc = "enc_copy_planes"
    /\ LET s == Native(St(c), c, "memcpy_planes", TRUE, {"frame"})
       IN  Commit(c, Goto([s EXCEPT !.loc.copies = PlaneCopies(s.loc.width, s.loc.height)],
                          "enc_tag"))

EncSwsFailCleanup == <<"av_frame_free", "avcodec_free_context">>

EncSwsGetContext(c) ==
    /\ call[c].pc = "enc_sws_get"
    /\ \E ok \in BOOLEAN :
          LET s == Acquire(St(c), c, "sws_getContext", ok, "sws", {})
          IN  Commit(c, IF ok THEN Goto(s, "enc_sws_scale")
                        ELSE Throw(Cleanup(s, c, EncSwsFailCleanup),
                                   "Failed to create swscale context"))

EncSwsScale(c) ==
    /\ call[c].pc = "enc_sws_scale"
    /\ \E ok \in BOOLEAN :
          Commit(c, Goto(Native(St(c), c, "sws_scale", ok, {"sws", "frame"}), "enc_tag"))

EncTagFrame(c) ==
    /\ call[c].pc = "enc_tag"
    /\ LET s == Native(St(c), c, "frame_set_pts", TRUE, {"frame"})
       IN  Commit(c, Goto([s EXCEPT !.loc.framePts = 0, !.loc.framePict = "I"], "enc_pkt_alloc"))

EncPacketAlloc(c) ==
    /\ call[c].pc = "enc_pkt_alloc"
    /\ \E ok \in BOOLEAN :
          Commit(c, Goto(Acquire(St(c), c, "av_packet_alloc", ok, "pkt", {}), "enc_send"))

EncSendFailCleanup == <<"av_packet_free", "sws_freeContext", "av_frame_free", "avcodec_free_context">>

\* The send-failure path with its return statement missing: the error is
\* raised and the resources are freed, but the pipeline carries on.
EncSendFrameNoReturn(c) ==
    /\ call[c].pc = "enc_send"
    /\ \E ok \in BOOLEAN :
          LET s0 == Native(St(c), c, "avcodec_send_frame", ok, {"ctx", "frame"})
              s  == [s0 EXCEPT !.loc.sentPts = s0.loc.framePts, !.loc.sentPict = s0.loc.framePict]
          IN  Commit(c, IF ok THEN Goto(s, "enc_flush")
                        ELSE Goto([Cleanup(s, c, EncSendFailCleanup)
                                     EXCEPT !.loc.exc = "Failed to send frame: "], "enc_flush"))

EncSendFrame(c) ==
    /\ call[c].pc = "enc_send"
    /\ \E ok \in BOOLEAN :
          LET s0 == Native(St(c), c, "avcodec_send_frame", ok, {"ctx", "frame"})
              s  == [s0 EXCEPT !.loc.sentPts = s0.loc.framePts, !.loc.sentPict = s0.loc.framePict]
          IN  Commit(c, IF ok THEN Goto(s, "enc_flush")
                        ELSE Throw(Cleanup(s, c, EncSendFailCleanup), "Failed to send frame: "))

\* The pipeline with the end-of-stream signal left out.
EncFlushSkipped(c) ==
    /\ call[c].pc = "enc_flush"
    /\ Commit(c, Goto(St(c), "enc_receive"))

EncFlush(c) ==
    /\ call[c].pc = "enc_flush"
    /\ \E ok \in BOOLEAN :
          Commit(c, Goto(Native(St(c), c, "avcodec_send_frame_null", ok, {"ctx"}), "enc_receive"))

\* AV_PKT_FLAG_KEY, the low bit of AVPacket.flags.
AV_PKT_FLAG_KEY == 1
\* The flag words the encoder may leave on a packet (key bit, corrupt bit).
PktFlags == 0..3

\* The keyframe report with the packet's flag word assumed, not read.
IsKeyframeAssumed(flags) == TRUE

\* (flags & AV_PKT_FLAG_KEY) != 0
IsKeyframe(flags) == (flags \div AV_PKT_FLAG_KEY) % 2 # 0

\* The receive-failure cleanup with the conversion context forgotten.
EncReceiveFailCleanupLeak == <<"av_packet_free", "av_frame_free", "avcodec_free_context">>

EncReceiveFailCleanup == <<"av_packet_free", "sws_freeContext", "av_frame_free", "avcodec_free_context">>

\* avcodec_receive_packet(ctx, pkt).  Handed a NULL packet the library
\* dereferences it or rejects it; it cannot deliver a payload.
EncReceivePacket(c) ==
    /\ call[c].pc = "enc_receive"
    /\ LET fail == Throw(Cleanup(Native(St(c), c, "avcodec_receive_packet", FALSE, {"ctx", "pkt"}),
                                 c, EncReceiveFailCleanup),
                         "Failed to receive packet: ")
       IN  IF call[c].pkt = 0
           THEN \/ Commit(c, Crash(St(c), c, "avcodec_receive_packet", {"ctx", "pkt"}))
                \/ Commit(c, fail)
           ELSE \/ \E flags \in PktFlags, size \in 0..MaxPkt :
                      LET s == Native(St(c), c, "avcodec_receive_packet", TRUE, {"ctx", "pkt"})
                      IN  Commit(c, Goto([s EXCEPT !.loc.pktData = "ref", !.loc.pktFlags = flags,
                                                   !.loc.pktSize = size], "enc_result"))
                \/ Commit(c, fail)

\* The result handing back Napi::Buffer::New(env, pkt->data, pkt->size): a
\* view of the packet's payload in place of a copy.
EncBuildResultView(c) ==
    /\ call[c].pc = "enc_result"
    /\ LET s == Native(St(c), c, "packet_read", TRUE, {"pkt"})
           l == s.loc
       IN  Commit(c, Goto([s EXCEPT !.loc.result =
                                <<[data |-> "view",
                                   isKeyframe |-> IsKeyframe(l.pktFlags),
                                   size |-> l.pktSize]>>],
                          "enc_cleanup"))

\* Buffer::Copy(env, pkt->data, pkt->size), the flag test and the result object.
EncBuildResult(c) ==
    /\ call[c].pc = "enc_result"
    /\ LET s == Native(St(c), c, "packet_read", TRUE, {"pkt"})
           l == s.loc
       IN  Commit(c, Goto([s EXCEPT !.loc.result =
                                <<[data |-> IF l.pktData = "ref" THEN "copy" ELSE "invalid",
                                   isKeyframe |-> IsKeyframe(l.pktFlags),
                                   size |-> l.pktSize]>>],
                          "enc_cleanup"))

EncSuccessCleanup ==
    <<"av_packet_unref", "av_packet_free", "sws_freeContext", "av_frame_free", "avcodec_free_context">>

EncCleanup(c) ==
    /\ call[c].pc = "enc_cleanup"
    /\ Commit(c, Return(Cleanup(St(c), c, EncSuccessCleanup)))

\* ------------------------------------------------------- DecodeVP8Frame
\* The caller invokes decodeVP8Frame(frameData).
InvokeDecode(c) ==
    /\ call[c].pc = "idle"
    /\ \/ \E n \in 0..MaxPkt :
             call' = [call EXCEPT ![c] = [@ EXCEPT !.pc = "dec_args", !.kind = "decode", !.len = n]]
       \/ call' = [call EXCEPT ![c] = [@ EXCEPT !.pc = "dec_args", !.kind = "decode",
                                                !.argsOk = FALSE]]
    /\ UNCHANGED heap

DecArgs(c) ==
    /\ call[c].pc = "dec_args"
    /\ Commit(c, IF call[c].argsOk
                 THEN Goto(St(c), "dec_find")
                 ELSE Throw(St(c), "Expected Buffer with VP8 frame data"))

DecFindCodec(c) ==
    /\ call[c].pc = "dec_find"
    /\ \E found \in BOOLEAN :
          LET s == Native(St(c), c, "avcodec_find_decoder", found, {})
          IN  Commit(c, IF found THEN Goto([s EXCEPT !.loc.codec = TRUE], "dec_alloc_ctx")
                        ELSE Throw(s, "VP8 decoder not found"))

DecAllocContext(c) ==
    /\ call[c].pc = "dec_alloc_ctx"
    /\ \E ok \in BOOLEAN :
          LET s == Acquire(St(c), c, "avcodec_alloc_context3", ok, "ctx", {})
          IN  Commit(c, IF ok THEN Goto(s, "dec_open")
                        ELSE Throw(s, "Failed to allocate codec context"))

DecOpenFailCleanup == <<"avcodec_free_context">>

DecOpen(c) ==
    /\ call[c].pc = "dec_open"
    /\ \E ok \in BOOLEAN :
          LET s == Native(St(c), c, "avcodec_open2", ok, {"ctx"})
          IN  Commit(c, IF ok THEN Goto(s, "dec_pkt_alloc")
                        ELSE Throw(Cleanup(s, c, DecOpenFailCleanup), "Failed to open codec"))

DecPacketAlloc(c) ==
    /\ call[c].pc = "dec_pkt_alloc"
    /\ \E ok \in BOOLEAN :
          LET s == Acquire(St(c), c, "av_packet_alloc", ok, "pkt", {})
          IN  Commit(c, IF ok
                        THEN Goto([Native(s, c, "packet_set_data", TRUE, {"pkt"})
                                     EXCEPT !.loc.pktSize = call[c].len], "dec_frame_alloc")
                        ELSE Crash(s, c, "packet_set_data", {"pkt"}))

DecFrameAlloc(c) ==
    /\ call[c].pc = "dec_frame_alloc"
    /\ \E ok \in BOOLEAN :
          Commit(c, Goto(Acquire(St(c), c, "av_frame_alloc", ok, "frame", {}), "dec_send"))

DecSendFailCleanup == <<"av_frame_free", "av_packet_free", "avcodec_free_context">>

\* The submit with its status ignored: receive runs whatever it returned.
DecSendPacketUnchecked(c) ==
    /\ call[c].pc = "dec_send"
    /\ \E ok \in BOOLEAN :
          Commit(c, Goto(Native(St(c), c, "avcodec_send_packet", ok, {"ctx", "pkt"}), "dec_receive"))

DecSendPacket(c) ==
    /\ call[c].pc = "dec_send"
    /\ \E ok \in BOOLEAN :
          LET s == Native(St(c), c, "avcodec_send_packet", ok, {"ctx", "pkt"})
          IN  Commit(c, IF ok THEN Goto(s, "dec_receive")
                        ELSE Throw(Cleanup(s, c, DecSendFailCleanup), "Failed to send packet: "))

DecReceiveFailCleanup == <<"av_frame_free", "av_packet_free", "avcodec_free_context">>

\* avcodec_receive_frame(ctx, frame).  Handed a NULL frame the library
\* dereferences it or rejects it; it cannot deliver a picture.
DecReceiveFrame(c) ==
    /\ call[c].pc = "dec_receive"
    /\ LET fail == Throw(Cleanup(Native(St(c), c, "avcodec_receive_frame", FALSE, {"ctx", "frame"}),
                                 c, DecReceiveFailCleanup),
                         "Failed to receive frame: ")
       IN  IF call[c].frame = 0
           THEN \/ Commit(c, Crash(St(c), c, "avcodec_receive_frame", {"ctx", "frame"}))
                \/ Commit(c, fail)
           ELSE \/ \E w \in 1..MaxDim, h \in 1..MaxDim :
                      LET s == Native(St(c), c, "avcodec_receive_frame", TRUE, {"ctx", "frame"})
                      IN  Commit(c, Goto([s EXCEPT !.loc.frameW = w, !.loc.frameH = h], "dec_sws_get"))
                \/ Commit(c, fail)

DecSwsFailCleanup == <<"av_frame_free", "av_packet_free", "avcodec_free_context">>

\* int width = frame->width; int height = frame->height; sws_getContext(...)
DecSwsGetContext(c) ==
    /\ call[c].pc = "dec_sws_get"
    /\ \E ok \in BOOLEAN :
          LET s0 == Native(St(c), c, "frame_read_size", TRUE, {"frame"})
              s1 == [s0 EXCEPT !.loc.width = s0.loc.frameW, !.loc.height = s0.loc.frameH]
              s  == Acquire(s1, c, "sws_getContext", ok, "sws", {})
          IN  Commit(c, IF ok THEN Goto(s, "dec_convert")
                        ELSE Throw(Cleanup(s, c, DecSwsFailCleanup),
                                   "Failed to create swscale context"))

\* The buffer sized for four bytes a pixel.
RgbaSize(width, height) == ToSizeT(Mul32(Mul32(width, height), 4))

\* size_t rgbSize = width * height * 3;
RgbSize(width, height) == ToSizeT(Mul32(Mul32(width, height), 3))

DecConvert(c) ==
    /\ call[c].pc = "dec_convert"
    /\ \E ok \in BOOLEAN :
          Commit(c, Goto(Native(St(c), c, "sws_scale", ok, {"sws", "frame"}), "dec_result"))

\* rgbData[i]: the byte at offset i of the buffer made by Napi::Buffer::New.
RgbData(i) == [buf |-> "buffer", at |-> i]

\* The result object: data is the Napi buffer the conversion wrote into.
DecBuildResult(c) ==
    /\ call[c].pc = "dec_result"
    /\ LET l == call[c]
       IN  Commit(c, Goto([St(c) EXCEPT !.loc.result =
                                <<[width |-> l.width, height |-> l.height, format |-> "rgb24",
                                   data |-> "buffer",
                                   dataLen |-> RgbSize(l.width, l.height).low,
                                   firstPixelR |-> RgbData(0),
                                   firstPixelG |-> RgbData(1),
                                   firstPixelB |-> RgbData(2)]>>],
                          "dec_cleanup"))

DecSuccessCleanup == <<"sws_freeContext", "av_frame_free", "av_packet_free", "avcodec_free_context">>

DecCleanup(c) ==
    /\ call[c].pc = "dec_cleanup"
    /\ Commit(c, Return(Cleanup(St(c), c, DecSuccessCleanup)))

\* ----------------------------------------------------- the specification
Next ==
    \E c \in Solo :
       \/ InvokeEncode(c) \/ EncArgs(c) \/ EncCheckSize(c) \/ EncFindCodec(c)
       \/ EncAllocContext(c) \/ EncConfigure(c) \/ EncOpen(c) \/ EncFrameAlloc(c)
       \/ EncGetBuffer(c) \/ EncMakeWritable(c) \/ EncCopyPlanes(c)
       \/ EncSwsGetContext(c) \/ EncSwsScale(c) \/ EncTagFrame(c) \/ EncPacketAlloc(c)
       \/ EncSendFrame(c) \/ EncFlush(c) \/ EncReceivePacket(c) \/ EncBuildResult(c)
       \/ EncCleanup(c)
       \/ InvokeDecode(c) \/ DecArgs(c) \/ DecFindCodec(c) \/ DecAllocContext(c)
       \/ DecOpen(c) \/ DecPacketAlloc(c) \/ DecFrameAlloc(c) \/ DecSendPacket(c)
       \/ DecReceiveFrame(c) \/ DecSwsGetContext(c) \/ DecConvert(c)
       \/ DecBuildResult(c) \/ DecCleanup(c)

Spec == Init /\ [][Next]_vars

\* ------------------------------------------------- reading a call's log
Log(c) == call[c].log
Idx(c) == 1..Len(Log(c))
\* The positions of call c's log whose operation is one of ops.
At(c, ops) == {i \in Idx(c) : Log(c)[i].op \in ops}
Past(c, pcs) == call[c].pc \notin ({"idle"} \cup pcs)

FreeOps == {"avcodec_free_context", "av_frame_free", "av_packet_free", "sws_freeContext"}
ReleaseOps == FreeOps \cup {"av_packet_unref"}
NAcquired(c, r) == Cardinality({i \in Idx(c) : Log(c)[i].acq = r})
NReleased(c, r) == Cardinality({i \in Idx(c) : Log(c)[i].rel = r})
\* A releasing call handed memory that is no longer the caller's resource.
StaleFrees(c) == {i \in At(c, FreeOps) : \E a \in Log(c)[i].args : a.st = "stale"}

\* C1: when encodeVP8Frame or decodeVP8Frame returns, by success or by any
\* failure, each of the context, frame, packet and conversion context the
\* call acquired has been released exactly once: none is still live on the
\* heap, none was acquired more often than released, and no releasing call
\* was applied to an already released resource.
C1_ReleasedExactlyOnce ==
    \A c \in Calls :
       call[c].pc = "returned" =>
          /\ \A r \in Resources : NAcquired(c, r) = NReleased(c, r) /\ NAcquired(c, r) <= 1
          /\ StaleFrees(c) = {}
          /\ \A a \in Addrs : heap[a].owner # c

\* An encode that fails at its last native call, holding all four resources.
C1_Witness ==
    \E c \in Calls :
       /\ call[c].pc = "returned"
       /\ call[c].exc = "Failed to receive packet: "
       /\ \A r \in Resources : NAcquired(c, r) = 1 /\ NReleased(c, r) = 1

\* ----------------------------------------------------- size validation
\* ceil(n / 2) for n > 0.
CeilHalf(n) == (n + 1) \div 2
\* The planar YUV 4:2:0 size of the data model: luma plus two chroma planes
\* whose dimensions round up.
I420Size(w, h) == w * h + 2 * CeilHalf(w) * CeilHalf(h)
\* The packed RGB24 size of the data model.
Rgb24Size(w, h) == w * h * 3
LayoutSize(isI420, w, h) == IF isI420 THEN I420Size(w, h) ELSE Rgb24Size(w, h)

\* Call c is an encode whose arguments were well-formed and whose size
\* check has run.
SizeChecked(c) ==
    /\ call[c].kind = "encode"
    /\ call[c].argsOk
    /\ Past(c, {"enc_args", "enc_size"})

SizeRejected(c) == call[c].exc \in {"I420 buffer size mismatch", "RGB24 buffer size mismatch"}

\* C2: an I420 encode with positive width and height (odd ones included)
\* passes the size check exactly when the buffer holds
\* width*height + 2*ceil(width/2)*ceil(height/2) bytes, and fails with the
\* I420 buffer-size error for every other length.
C2_I420SizeRoundsUp ==
    \A c \in Calls :
       (SizeChecked(c) /\ IsI420(call[c].format) /\ call[c].width > 0 /\ call[c].height > 0) =>
          IF call[c].len = I420Size(call[c].width, call[c].height)
          THEN ~SizeRejected(c)
          ELSE call[c].exc = "I420 buffer size mismatch"

\* No native operation has run and no native resource is held by call c.
NothingNative(c) ==
    /\ Log(c) = <<>>
    /\ \A r \in Resources : call[c][r] = 0
    /\ ~call[c].codec

\* C3: an encode whose buffer length differs from the size of its declared
\* layout and dimensions fails with the buffer-size error of that layout
\* (one text for RGB24, another for I420) without any encoder lookup,
\* context allocation or other native acquisition.
C3_MismatchNeverReachesCodec ==
    \A c \in Calls :
       (SizeChecked(c)
          /\ call[c].len # LayoutSize(IsI420(call[c].format), call[c].width, call[c].height)) =>
          /\ call[c].pc = "returned"
          /\ call[c].exc = (IF IsI420(call[c].format) THEN "I420 buffer size mismatch"
                                                      ELSE "RGB24 buffer size mismatch")
          /\ NothingNative(c)

\* C4: an encode whose width or height is zero or negative is rejected
\* before a codec session is opened and before the conversion or the plane
\* copy runs, whatever the buffer length.
C4_NonPositiveRejectedUpstream ==
    \A c \in Calls :
       (SizeChecked(c) /\ (call[c].width <= 0 \/ call[c].height <= 0)) =>
          /\ call[c].pc = "returned"
          /\ call[c].exc # "none"
          /\ At(c, {"avcodec_find_encoder_by_name", "avcodec_find_encoder",
                    "avcodec_alloc_context3", "avcodec_open2",
                    "sws_getContext", "sws_scale", "memcpy_planes"}) = {}

\* --------------------------------------------------- status propagation
\* The native calls that report failure by a negative status.
StatusOps == {"avcodec_open2", "av_frame_get_buffer", "av_frame_make_writable", "sws_scale",
              "avcodec_send_frame", "avcodec_send_frame_null", "avcodec_receive_packet",
              "avcodec_send_packet", "avcodec_receive_frame"}

\* The native calls of call c that returned a negative status (a call the
\* process died in returned nothing).
FailedStatus(c) ==
    {i \in At(c, StatusOps) : ~Log(c)[i].ok /\ ~(call[c].pc = "crashed" /\ i = Len(Log(c)))}

\* C5: a negative status from any native call of encode or decode,
\* mark-writable, the flush submit and the conversion included, fails the
\* call with an error; nothing but releases follows the failed call.
C5_NoStatusIgnored ==
    \A c \in Calls :
       \A i \in FailedStatus(c) :
          /\ call[c].pc = "returned"
          /\ call[c].exc # "none"
          /\ call[c].result = <<>>
          /\ \A j \in Idx(c) : j > i => Log(c)[j].op \in ReleaseOps

\* ------------------------------------------------------ keyframe report
Encoded(c) == call[c].kind = "encode" /\ call[c].result # <<>>

\* The frame the encoder was handed carried pts 0 and picture type I.
SubmittedIntraAtZero(c) == call[c].sentPts = 0 /\ call[c].sentPict = "I"

\* C6 as stated: every encode that produced a result reports
\* isKeyframe = true whatever key flag the encoder left on the packet, and
\* the frame it submitted was tagged intra with timestamp zero.
C6_AlwaysKeyframe ==
    \A c \in Calls :
       Encoded(c) => call[c].result[1].isKeyframe /\ SubmittedIntraAtZero(c)

\* C6 amended: every encode that produced a result reports isKeyframe true
\* exactly when the key bit of the packet's flag word is set, and the frame
\* it submitted was tagged intra with timestamp zero.
C6_KeyframeFromPacketFlag ==
    \A c \in Calls :
       Encoded(c) =>
          /\ call[c].result[1].isKeyframe <=> (call[c].pktFlags \in {1, 3})
          /\ SubmittedIntraAtZero(c)

\* An encode returned a result for a packet the encoder did not flag key.
C6_Witness ==
    \E c \in Calls :
       /\ Encoded(c) /\ call[c].ret = "result"
       /\ call[c].pktFlags = 0
       /\ ~call[c].result[1].isKeyframe

\* ------------------------------------------------------------ fail fast
\* The last native operation of call c that is not a release (0 if none).
LastWork(c) ==
    LET w == {i \in Idx(c) : Log(c)[i].op \notin ReleaseOps}
    IN  IF w = {} THEN 0 ELSE CHOOSE i \in w : \A j \in w : j <= i

ResultFields(c) ==
    IF call[c].kind = "encode" THEN {"data", "isKeyframe", "size"}
    ELSE {"width", "height", "format", "data", "dataLen",
          "firstPixelR", "firstPixelG", "firstPixelB"}

RECURSIVE Filter(_, _)
Filter(log, ops) ==
    IF log = <<>> THEN <<>>
    ELSE IF Head(log).op \in ops THEN <<Head(log).op>> \o Filter(Tail(log), ops)
    ELSE Filter(Tail(log), ops)

EncSessionOps == {"avcodec_send_frame", "avcodec_send_frame_null", "avcodec_receive_packet"}

\* C8: an encode that returns a result has submitted one frame, signalled
\* end-of-stream and received one packet, in that order and once each; an
\* encode never submits a second frame nor receives twice; a rejected
\* submit raises the send-frame error with no flush or receive after it;
\* a receive without a packet raises the receive-packet error.
C8_EncodeOne ==
    \A c \in Calls :
       call[c].kind = "encode" =>
          /\ call[c].ret = "result" =>
                /\ Filter(Log(c), EncSessionOps)
                     = <<"avcodec_send_frame", "avcodec_send_frame_null", "avcodec_receive_packet">>
                /\ \A i \in At(c, {"avcodec_send_frame", "avcodec_receive_packet"}) : Log(c)[i].ok
          /\ Cardinality(At(c, {"avcodec_send_frame"})) <= 1
          /\ Cardinality(At(c, {"avcodec_receive_packet"})) <= 1
          /\ \A i \in At(c, {"avcodec_send_frame"}) :
                ~Log(c)[i].ok =>
                   /\ call[c].exc = "Failed to send frame: "
                   /\ At(c, {"avcodec_send_frame_null", "avcodec_receive_packet"}) = {}
          /\ \A i \in At(c, {"avcodec_receive_packet"}) :
                (~Log(c)[i].ok /\ call[c].pc # "crashed") =>
                   call[c].exc = "Failed to receive packet: "

\* An encode that ran the whole cycle and returned its result.
C8_Witness ==
    \E c \in Calls :
       /\ call[c].kind = "encode" /\ call[c].pc = "returned" /\ call[c].ret = "result"
       /\ At(c, {"avcodec_receive_packet"}) # {}

DecSessionOps == {"avcodec_send_packet", "avcodec_receive_frame", "avcodec_send_frame",
                  "avcodec_send_frame_null", "avcodec_receive_packet"}
ConversionOps == {"sws_getContext", "sws_scale"}

\* C9: a decode submits one packet and calls receive-frame at most once,
\* and only after the submit succeeded; a receive without a frame raises
\* the receive-frame error, with no further submit, flush, receive or
\* conversion.
C9_DecodeOne ==
    \A c \in Calls :
       call[c].kind = "decode" =>
          /\ Cardinality(At(c, {"avcodec_send_packet"})) <= 1
          /\ Cardinality(At(c, {"avcodec_receive_frame"})) <= 1
          /\ At(c, {"avcodec_send_frame", "avcodec_send_frame_null", "avcodec_receive_packet"}) = {}
          /\ \A i \in At(c, {"avcodec_receive_frame"}) :
                /\ \E j \in At(c, {"avcodec_send_packet"}) : j < i /\ Log(c)[j].ok
                /\ (~Log(c)[i].ok /\ call[c].pc # "crashed") =>
                      /\ call[c].exc = "Failed to receive frame: "
                      /\ Filter(Log(c), DecSessionOps)
                           = <<"avcodec_send_packet", "avcodec_receive_frame">>
                      /\ At(c, ConversionOps) = {}
          /\ call[c].ret = "result" =>
                Filter(Log(c), DecSessionOps) = <<"avcodec_send_packet", "avcodec_receive_frame">>

\* A decode whose decoder took the packet and delivered no frame.
C9_Witness ==
    \E c \in Calls :
       /\ call[c].kind = "decode" /\ call[c].pc = "returned"
       /\ call[c].frame = 0 /\ NAcquired(c, "frame") = 1
       /\ \E i \in At(c, {"avcodec_receive_frame"}) : ~Log(c)[i].ok
       /\ call[c].exc = "Failed to receive frame: "

\* -------------------------------------------------- the session's states
SubmitOps == {"avcodec_send_frame", "avcodec_send_packet"}
ReceiveOps == {"avcodec_receive_packet", "avcodec_receive_frame"}
Held == {"Allocated", "Opened", "Consumed"}

\* Whether operation e passes the context, and passes it live.
TouchesCtx(e) == \E a \in e.args : a.res = "ctx"
CtxLive(e) == \A a \in e.args : a.res = "ctx" => a.st = "own"

\* The session state after operation e, from state q.s with q.n frames or
\* packets submitted so far and q.seen the states entered so far; "Illegal"
\* once an operation is applied in a state that does not admit it.
SessionStep(q, e) ==
    LET to(s) == IF s = q.s THEN q ELSE [q EXCEPT !.s = s, !.seen = Append(@, s)]
        bad   == [q EXCEPT !.s = "Illegal"]
    IN  IF q.s = "Illegal" THEN q
        ELSE IF e.op = "avcodec_alloc_context3"
             THEN IF q.s # "Unallocated" THEN bad
                  ELSE IF e.ok THEN to("Allocated") ELSE q
        ELSE IF ~CtxLive(e) THEN bad
        ELSE IF e.op = "configure"
             THEN IF q.s = "Allocated" THEN q ELSE bad
        ELSE IF e.op = "avcodec_open2"
             THEN IF q.s # "Allocated" THEN bad
                  ELSE IF e.ok THEN to("Opened") ELSE q
        ELSE IF e.op \in SubmitOps
             THEN IF q.s = "Opened" /\ q.n = 0
                  THEN [q EXCEPT !.n = IF e.ok THEN 1 ELSE 0]
                  ELSE bad
        ELSE IF e.op = "avcodec_send_frame_null"
             THEN IF q.s = "Opened" /\ q.n = 1 THEN q ELSE bad
        ELSE IF e.op \in ReceiveOps
             THEN IF q.s = "Opened" /\ q.n = 1
                  THEN IF e.ok THEN to("Consumed") ELSE q
                  ELSE bad
        ELSE IF e.op = "avcodec_free_context"
             THEN IF q.s \in Held THEN to("Closed") ELSE bad
        ELSE IF TouchesCtx(e)
             THEN IF q.s \in Held THEN q ELSE bad
        ELSE q

RECURSIVE SessionRun(_, _)
SessionRun(q, log) == IF log = <<>> THEN q ELSE SessionRun(SessionStep(q, Head(log)), Tail(log))

Session(c) == SessionRun([s |-> "Unallocated", n |-> 0, seen |-> <<"Unallocated">>], Log(c))

\* C10: the codec context of a call only moves forward through
\* Unallocated, Allocated, Opened, Consumed, Closed: it is configured only
\* between allocation and open, submitted to and received from only while
\* opened, Consumed after one submit and one receive, never passed to any
\* operation once closed, and a call that returns has closed the context it
\* allocated; a call that returns a result went through all five states.
C10_LinearSession ==
    \A c \in Calls :
       /\ Session(c).s # "Illegal"
       /\ call[c].pc = "returned" => Session(c).s \in {"Unallocated", "Closed"}
       /\ call[c].ret = "result" =>
             Session(c).seen = <<"Unallocated", "Allocated", "Opened", "Consumed", "Closed">>

\* A decode that returned its picture: the context went through all five
\* states and no operation touched it after it was closed.
C10_Witness ==
    \E c \in Calls :
       /\ call[c].kind = "decode" /\ call[c].pc = "returned" /\ call[c].ret = "result"
       /\ Session(c).seen = <<"Unallocated", "Allocated", "Opened", "Consumed", "Closed">>

\* ------------------------------------------------------ interleaved calls
\* The invocations that run interleaved, one native call at a time.
Pair == {1, 2}

\* decodeVP8Frame on a one-byte packet.
RunDecode(c) ==
    /\ call[c].pc = "idle"
    /\ call' = [call EXCEPT ![c] = [@ EXCEPT !.pc = "dec_args", !.kind = "decode", !.len = 1]]
    /\ UNCHANGED heap

\* A crash ends the process, and with it every call in flight.
Crashed == \E c \in Calls : call[c].pc = "crashed"

\* Two decode calls, each stepping whenever the process is still alive.
NextAll ==
    \E c \in Pair :
       \/ ~Crashed /\ RunDecode(c)
       \/ ~Crashed /\ DecArgs(c)
       \/ ~Crashed /\ DecFindCodec(c)
       \/ ~Crashed /\ DecAllocContext(c)
       \/ ~Crashed /\ DecOpen(c)
       \/ ~Crashed /\ DecPacketAlloc(c)
       \/ ~Crashed /\ DecFrameAlloc(c)
       \/ ~Crashed /\ DecSendPacket(c)
       \/ ~Crashed /\ DecReceiveFrame(c)
       \/ ~Crashed /\ DecSwsGetContext(c)
       \/ ~Crashed /\ DecConvert(c)
       \/ ~Crashed /\ DecBuildResult(c)
       \/ ~Crashed /\ DecCleanup(c)

SpecAll == Init /\ [][NextAll]_vars

\* A native call applied only to live resources of the calling invocation;
\* a NULL handle is admitted by the releasing calls alone.
OwnOnly(c) ==
    \A i \in Idx(c) : \A a \in Log(c)[i].args :
        \/ a.st = "own"
        \/ a.st = "null" /\ Log(c)[i].op \in FreeOps

Finished(c) == call[c].pc \in {"idle", "returned"}

\* What the library answered to a call, operation by operation.
Answers(c) ==
    [ops |-> [i \in Idx(c) |-> [op |-> Log(c)[i].op, ok |-> Log(c)[i].ok]],
     frameW |-> call[c].frameW, frameH |-> call[c].frameH]

\* What the caller observes, and what the call did to get there.
Outcome(c) == [exc |-> call[c].exc, ret |-> call[c].ret, result |-> call[c].result,
               log |-> Log(c)]

\* C11: interleaved calls apply native operations only to resources they
\* allocated themselves; a call's outcome is the one it has alone (it follows
\* from its input and the library's answers however the other call ran, and
\* no call is cut short by another); once every call has returned no native
\* resource is live.
C11_Isolated ==
    /\ \A c \in Pair : OwnOnly(c)
    /\ Crashed => \A c \in Pair : call[c].pc \in {"idle", "returned", "crashed"}
    /\ \A c \in Pair, d \in Pair :
          (call[c].pc = "returned" /\ call[d].pc = "returned"
             /\ call[c].kind = call[d].kind /\ call[c].len = call[d].len
             /\ Answers(c) = Answers(d))
          => Outcome(c) = Outcome(d)
    /\ (\A c \in Pair : Finished(c)) => \A a \in Addrs : heap[a] = FreeCell

\* ------------------------------------------------------- returned bytes
Decoded(c) == call[c].kind = "decode" /\ call[c].result # <<>>
\* Every position of ops in call c's log comes after position i.
Before(c, i, ops) == \A j \in At(c, ops) : i < j
OwnArgs(e) == \A a \in e.args : a.st = "own"

\* C12: the bytes handed back never alias native memory the call released.
\* Encode copies the payload and reads flag and size from a live, still
\* referenced packet before any unref or free of it; decode converts into a
\* buffer of the caller's, before any release, and that buffer is none of the
\* resources the cleanup frees.
C12_ReturnedBytesOwned ==
    \A c \in Calls :
       /\ Encoded(c) =>
             /\ call[c].result[1].data = "copy"
             /\ \E i \in At(c, {"packet_read"}) :
                   /\ OwnArgs(Log(c)[i])
                   /\ \E r \in At(c, {"avcodec_receive_packet"}) : r < i /\ Log(c)[r].ok
                   /\ Before(c, i, {"av_packet_unref", "av_packet_free"})
       /\ Decoded(c) =>
             /\ call[c].result[1].data = "buffer"
             /\ \E i \in At(c, {"sws_scale"}) : OwnArgs(Log(c)[i]) /\ Before(c, i, ReleaseOps)
       /\ (call[c].pc = "returned" /\ call[c].result # <<>>) =>
             /\ \A r \in Resources : NReleased(c, r) = NAcquired(c, r)
             /\ call[c].result[1].data \in {"copy", "buffer"}

\* An encode has returned its copy with the packet unreferenced and freed.
C12_Witness ==
    \E c \in Calls :
       /\ call[c].pc = "returned" /\ Encoded(c)
       /\ call[c].result[1].data = "copy" /\ call[c].result[1].size = MaxPkt
       /\ At(c, {"av_packet_unref"}) # {} /\ NReleased(c, "pkt") = 1

\* C13: a successful decode returns the decoded frame's width and height,
\* "rgb24", pixel data of width*height*3 bytes, and as firstPixelR, G, B the
\* bytes at offsets 0, 1, 2 of that data.
C13_DecodeResult ==
    \A c \in Calls :
       Decoded(c) =>
          LET res == call[c].result[1]
          IN  /\ res.width = call[c].frameW /\ res.height = call[c].frameH
              /\ res.format = "rgb24"
              /\ res.dataLen = res.width * res.height * 3
              /\ res.firstPixelR = [buf |-> res.data, at |-> 0]
              /\ res.firstPixelG = [buf |-> res.data, at |-> 1]
              /\ res.firstPixelB = [buf |-> res.data, at |-> 2]
              /\ res.dataLen > 2

\* A decode of a frame that is not square has returned.
C13_Witness ==
    \E c \in Calls :
       /\ call[c].pc = "returned" /\ Decoded(c)
       /\ call[c].frameW = MaxDim /\ call[c].frameH = 2
       /\ call[c].result[1].dataLen = MaxDim * 6

\* ---------------------------------------------------- opening the encoder
CodecUnavailableError == {"VP8 encoder (libvpx) not found"}
CodecOpenError == {"Failed to allocate encoder context", "Failed to open VP8 encoder"}
Failed(c, ops) == {i \in At(c, ops) : ~Log(c)[i].ok}
Succeeded(c, ops) == {i \in At(c, ops) : Log(c)[i].ok}

\* C14: the encoder is looked up by name first and by identifier only after
\* the named lookup found nothing; the codec-unavailable error is raised
\* exactly when both fail, and then no context is allocated; a failed context
\* allocation or open raises the codec-open error, the failed open having
\* released the context.
C14_EncoderLookup ==
    \A c \in Calls :
       (call[c].kind = "encode" /\ Log(c) # <<>>) =>
          /\ Log(c)[1].op = "avcodec_find_encoder_by_name"
          /\ At(c, {"avcodec_find_encoder_by_name"}) = {1}
          /\ At(c, {"avcodec_find_encoder"}) \subseteq {2}
          /\ At(c, {"avcodec_find_encoder"}) # {} <=> (~Log(c)[1].ok /\ Len(Log(c)) > 1)
          /\ call[c].pc = "returned" =>
                /\ call[c].exc \in CodecUnavailableError
                      <=> Failed(c, {"avcodec_find_encoder_by_name"}) # {}
                          /\ Failed(c, {"avcodec_find_encoder"}) # {}
                /\ call[c].exc \in CodecUnavailableError => At(c, {"avcodec_alloc_context3"}) = {}
                /\ call[c].exc \in CodecOpenError
                      <=> Failed(c, {"avcodec_alloc_context3", "avcodec_open2"}) # {}
                /\ Failed(c, {"avcodec_alloc_context3"}) # {} => NAcquired(c, "ctx") = 0
                /\ Failed(c, {"avcodec_open2"}) # {} =>
                      /\ NAcquired(c, "ctx") = 1 /\ NReleased(c, "ctx") = 1
                      /\ Log(c)[Len(Log(c))].op = "avcodec_free_context"

\* The named lookup found nothing, the generic one did, and the open failed.
C14_Witness ==
    \E c \in Calls :
       /\ call[c].pc = "returned" /\ call[c].kind = "encode"
       /\ Failed(c, {"avcodec_find_encoder_by_name"}) # {}
       /\ Succeeded(c, {"avcodec_find_encoder"}) # {}
       /\ Failed(c, {"avcodec_open2"}) # {}
       /\ call[c].exc = "Failed to open VP8 encoder"
       /\ call[c].width > 0

\* ------------------------------------------------------ filling the frame
Planar == {"I420", "YUV420P"}

\* C15: for a planar YUV 4:2:0 input no conversion context is ever created
\* and the frame is filled by the plane copy alone; for RGB24 one conversion
\* context is created, used for one conversion before the frame is submitted,
\* and released on whichever path the call leaves by afterwards.
C15_ConverterOnlyForRgb ==
    \A c \in Calls :
       call[c].kind = "encode" =>
          LET made   == At(c, {"sws_getContext"})
              scaled == At(c, {"sws_scale"})
              copied == At(c, {"memcpy_planes"})
              sent   == At(c, {"avcodec_send_frame"})
          IN  /\ call[c].format \in Planar =>
                    /\ made = {} /\ scaled = {} /\ call[c].sws = 0 /\ NAcquired(c, "sws") = 0
                    /\ Cardinality(copied) <= 1
                    /\ sent # {} => \E i \in copied : OwnArgs(Log(c)[i]) /\ \A j \in sent : i < j
              /\ call[c].format = "RGB24" =>
                    /\ copied = {}
                    /\ Cardinality(made) <= 1 /\ Cardinality(scaled) <= 1
                    /\ \A j \in scaled : \E i \in Succeeded(c, {"sws_getContext"}) :
                           i < j /\ OwnArgs(Log(c)[j])
                    /\ sent # {} =>
                          /\ NAcquired(c, "sws") = 1
                          /\ \E j \in scaled : \A k \in sent : j < k
                    /\ call[c].pc = "returned" =>
                          /\ NReleased(c, "sws") = NAcquired(c, "sws")
                          /\ \A i \in At(c, {"sws_freeContext"}) :
                                \A a \in Log(c)[i].args : a.st # "stale"

\* An RGB24 encode has left by the receive failure after its one conversion,
\* the conversion context released.
C15_Witness ==
    \E c \in Calls :
       /\ call[c].pc = "returned" /\ call[c].kind = "encode"
       /\ call[c].format = "RGB24" /\ call[c].exc = "Failed to receive packet: "
       /\ Cardinality(At(c, {"sws_scale"})) = 1
       /\ NAcquired(c, "sws") = 1 /\ NReleased(c, "sws") = 1
       /\ call[c].height = 2 /\ call[c].width = MaxDim

\* ------------------------------------------------------ large dimensions
\* Widths and heights up to the int range: small ones, 2^16, and a third of
\* 2^32 rounded up.
BigDims == {1, 2, 65536, 1431655766}
BigLens == {0, 2, 6, 12}

\* encodeVP8Frame(data, {width, height, format}) with dimensions of any size.
InvokeEncodeBig(c) ==
    /\ call[c].pc = "idle"
    /\ \E w \in BigDims, h \in BigDims, f \in Formats, n \in BigLens :
          call' = [call EXCEPT ![c] = [@ EXCEPT !.pc = "enc_args", !.kind = "encode",
                                                !.width = w, !.height = h,
                                                !.format = f, !.len = n]]
    /\ UNCHANGED heap

NextBig ==
    \E c \in Solo :
       \/ InvokeEncodeBig(c) \/ EncArgs(c) \/ EncCheckSize(c) \/ EncFindCodec(c)
       \/ EncAllocContext(c) \/ EncConfigure(c) \/ EncOpen(c) \/ EncFrameAlloc(c)
       \/ EncGetBuffer(c) \/ EncMakeWritable(c) \/ EncCopyPlanes(c)
       \/ EncSwsGetContext(c) \/ EncSwsScale(c) \/ EncTagFrame(c) \/ EncPacketAlloc(c)
       \/ EncSendFrame(c) \/ EncFlush(c) \/ EncReceivePacket(c) \/ EncBuildResult(c)
       \/ EncCleanup(c)

SpecBig == Init /\ [][NextBig]_vars

SizeAccepted(c) == SizeChecked(c) /\ ~SizeRejected(c)

\* C16: whatever the width and height, an RGB24 buffer passes the size check
\* only if width*height*3, computed without wraparound, is its length.
C16_NoWraparound ==
    \A c \in Calls :
       (SizeAccepted(c) /\ call[c].format = "RGB24") =>
          /\ MulFits(call[c].width, call[c].height)
          /\ MulFits(call[c].width * call[c].height, 3)
          /\ call[c].len = call[c].width * call[c].height * 3

\* ------------------------------------------------------- the plane copy
\* The memcpy calls of call c that read input offset o.
ReadersOf(c, o) ==
    {k \in DOMAIN call[c].copies :
        call[c].copies[k].src <= o /\ o < call[c].copies[k].src + call[c].copies[k].n}
\* The positions of plane p's memcpy calls before position k.
EarlierRows(c, k, p) == {j \in 1..(k - 1) : call[c].copies[j].plane = p}

\* C17: once an I420 buffer has passed the size check and its planes are
\* copied, the Y, U and V loops have read every input offset below the
\* buffer's length exactly once and none at or past it, and each row was
\* written at row * linesize of its plane, no wider than the plane's row.
C17_PlaneCopyExact ==
    \A c \in Calls :
       At(c, {"memcpy_planes"}) # {} =>
          /\ SizeAccepted(c) /\ IsI420(call[c].format)
          /\ \A o \in 0..(call[c].len - 1) : Cardinality(ReadersOf(c, o)) = 1
          /\ \A k \in DOMAIN call[c].copies :
                LET m == call[c].copies[k]
                IN  /\ m.src >= 0 /\ m.n >= 0 /\ m.src + m.n <= call[c].len
                    /\ m.plane \in {0, 1, 2}
                    /\ m.dst = Cardinality(EarlierRows(c, k, m.plane))
                                  * LineSize(m.plane, call[c].width)
                    /\ m.n <= PlaneWidth(m.plane, call[c].width)
                    /\ m.n <= LineSize(m.plane, call[c].width)

\* An I420 frame of odd width and even height has been copied: two luma rows
\* and one row of each chroma plane.
C17_Witness ==
    \E c \in Calls :
       /\ At(c, {"memcpy_planes"}) # {}
       /\ call[c].width = 3 /\ call[c].height = 2 /\ call[c].len = 8
       /\ Len(call[c].copies) = 4
       /\ call[c].copies[4].src = 7

\* ------------------------------------------------------- missing handles
\* C18: no native operation other than a release is applied to a frame or
\* packet handle that is not allocated: a call whose av_frame_alloc or
\* av_packet_alloc failed does not crash but returns an error, with
\* everything it acquired released.
C18_MissingHandleChecked ==
    \A c \in Calls :
       /\ \A i \in Idx(c) :
             Log(c)[i].op \notin FreeOps =>
                \A a \in Log(c)[i].args : a.res \in {"frame", "pkt"} => a.st = "own"
       /\ call[c].pc # "crashed"
       /\ (call[c].pc = "returned" /\ Failed(c, {"av_frame_alloc", "av_packet_alloc"}) # {}) =>
             /\ call[c].exc # "none"
             /\ \A r \in Resources : NReleased(c, r) = NAcquired(c, r)

====
